---- MODULE Spec2Model ----
(***************************************************************************)
(* Model of artiq/compiler/inline.py: the value encoder, the reference     *)
(* manager (scope keys, name allocator, rpc map), the reference replacer   *)
(* and the recursive inliner.                                              *)
(*                                                                         *)
(* Python values are records tagged by the field py; syntax nodes          *)
(* (ast.AST) are the values with py = "ast", tagged by the field t.        *)
(* Names are strings, so that new_name builds its results by               *)
(* concatenation exactly as the code does.                                 *)
(***************************************************************************)
EXTENDS Integers, Sequences, FiniteSets, TLC

VARIABLES
    rm,         \* the session's _ReferenceManager
    last,       \* the last reference-manager call and what it returned
    nops,       \* number of reference-manager calls made so far
    first,      \* history: scope key -> the name its first Store-resolve returned
    allocated,  \* history: every name new_name has returned
    call,       \* the top-level call handed to inline: kernel and arguments
    result,     \* what inline returned or raised
    pc          \* "rm": manager session, "start"/"done": inline session

vars == <<rm, last, nops, first, allocated, call, result, pc>>

(***************************************************************************)
(* Bounds of the model.                                                    *)
(***************************************************************************)
\* number of reference-manager operations in one session of Spec
MaxOps == 3
\* number of statements in the body of the top-level kernel of SpecInline
MaxBody == 2

(***************************************************************************)
(* Python values.                                                          *)
(***************************************************************************)
None == [py |-> "None"]
IntV(n) == [py |-> "int", n |-> n]
StrV(s) == [py |-> "str", s |-> s]
\* an arbitrary host object, known by its identity
ObjV(oid) == [py |-> "object", oid |-> oid]
\* units.Quantity(amount, unit)
QuantityV(amount, unit) == [py |-> "Quantity", amount |-> amount, unit |-> unit]
\* a callable: home is the module that defines it, self the identity of the
\* object a method is bound to ("" for a plain function), k_function the
\* kernel function its k_function_info names ("" when it has none)
FuncV(home, name, self, kfun) ==
    [py |-> "function", home |-> home, name |-> name, self |-> self,
     k_function |-> kfun]
\* a Python list of syntax nodes
ListV(elts) == [py |-> "list", elts |-> elts]
_UserVariable(name) == [py |-> "_UserVariable", name |-> name]

(***************************************************************************)
(* Syntax nodes.                                                           *)
(***************************************************************************)
Num(n) == [py |-> "ast", t |-> "Num", n |-> n]
Str(s) == [py |-> "ast", t |-> "Str", s |-> s]
Name(id, ctx) == [py |-> "ast", t |-> "Name", id |-> id, ctx |-> ctx]
Attribute(value, attr, ctx) ==
    [py |-> "ast", t |-> "Attribute", value |-> value, attr |-> attr, ctx |-> ctx]
Subscript(value, slice, ctx) ==
    [py |-> "ast", t |-> "Subscript", value |-> value, slice |-> slice, ctx |-> ctx]
BinOp(left, right) == [py |-> "ast", t |-> "BinOp", left |-> left, right |-> right]
Call(func, args) == [py |-> "ast", t |-> "Call", func |-> func, args |-> args]
Assign(target, value) ==
    [py |-> "ast", t |-> "Assign", targets |-> <<target>>, value |-> value]
Expr(value) == [py |-> "ast", t |-> "Expr", value |-> value]

(***************************************************************************)
(* artiq.language.experiment and artiq.language.units, as far as the       *)
(* inliner reads them.                                                     *)
(***************************************************************************)
kernel_globals == <<"sequential", "parallel", "delay", "now", "at", "syscall">>
\* getattr(experiment, kg)
experiment_getattr(kg) == FuncV("experiment", kg, "", "")
units_Quantity == FuncV("units", "Quantity", "", "")
builtin_range == FuncV("builtins", "range", "", "")

(***************************************************************************)
(* _value_to_ast                                                           *)
(***************************************************************************)
_value_to_ast(value) ==
    IF value.py = "int" THEN Num(value.n)
    ELSE IF value.py = "str" THEN Str(value.s)
    ELSE IF \E i \in DOMAIN kernel_globals :
                value = experiment_getattr(kernel_globals[i])
         THEN Name(value.name, "Load")
    ELSE IF value.py = "Quantity"
         THEN Call(Name("Quantity", "Load"),
                   <<Num(value.amount),
                     Name("base_" \o value.unit \o "_unit", "Load")>>)
    ELSE None

(***************************************************************************)
(* _ReferenceManager                                                       *)
(***************************************************************************)
EmptyMap == [k \in {} |-> k]

ReservedNames ==
    {"Quantity", "base_s_unit", "base_Hz_unit", "range"}
        \cup {kernel_globals[i] : i \in DOMAIN kernel_globals}

\* _ReferenceManager.__init__ ; trace is a history of the writes to
\* to_inlined and of the rpc_map lookups, kept for the properties only
_ReferenceManager ==
    [to_inlined |-> EmptyMap,
     use_count |-> [n \in ReservedNames |-> 1],
     rpc_map |-> EmptyMap,
     trace |-> <<>>]

isdigit(c) == c \in {"0", "1", "2", "3", "4", "5", "6", "7", "8", "9"}

LastChar(s) == SubSeq(s, Len(s), Len(s))

\* new_name without the "_" appended to a base name that ends in a digit
new_name_keeps_digit(m, base_name) ==
    IF base_name \in DOMAIN m.use_count
    THEN [name |-> base_name \o ToString(m.use_count[base_name]),
          rm |-> [m EXCEPT !.use_count[base_name] = @ + 1]]
    ELSE [name |-> base_name,
          rm |-> [m EXCEPT !.use_count = (base_name :> 1) @@ @]]

\* new_name without the increment of the use count
new_name_no_increment(m, base_name) ==
    LET base == IF isdigit(LastChar(base_name)) THEN base_name \o "_"
                ELSE base_name
    IN  IF base \in DOMAIN m.use_count
        THEN [name |-> base \o ToString(m.use_count[base]), rm |-> m]
        ELSE [name |-> base,
              rm |-> [m EXCEPT !.use_count = (base :> 1) @@ @]]

\* new_name: the name returned and the manager after the call
new_name(m, base_name) ==
    LET base == IF isdigit(LastChar(base_name)) THEN base_name \o "_"
                ELSE base_name
    IN  IF base \in DOMAIN m.use_count
        THEN [name |-> base \o ToString(m.use_count[base]),
              rm |-> [m EXCEPT !.use_count[base] = @ + 1]]
        ELSE [name |-> base,
              rm |-> [m EXCEPT !.use_count = (base :> 1) @@ @]]

Unbound == [py |-> "unbound"]

Bound(m, key) == key \in DOMAIN m.to_inlined

Binding(m, key) == IF Bound(m, key) THEN m.to_inlined[key] ELSE Unbound

\* self.to_inlined[key] = value, with the write recorded in the history
Store_to_inlined(m, key, value) ==
    [m EXCEPT !.to_inlined = (key :> value) @@ @,
              !.trace = Append(@, [ev |-> "bind", key |-> key,
                                   old |-> Binding(m, key), new |-> value])]

(***************************************************************************)
(* The defining module of the kernels (inspect.getmodule(obj).__dict__)    *)
(* and the attributes of the objects in it: the environment eval_ast       *)
(* evaluates references and call targets against.                          *)
(***************************************************************************)
host_fn == FuncV("host", "host_fn", "", "")
host_fn2 == FuncV("host", "host_fn2", "", "")

ModuleDict ==
    [n \in {"delay", "now", "at", "syscall"} |-> experiment_getattr(n)]
    @@ ("Quantity" :> units_Quantity)
    @@ ("range" :> builtin_range)
    @@ ("host_fn" :> host_fn)
    @@ ("host_fn2" :> host_fn2)
    @@ ("N" :> IntV(7))
    @@ ("T" :> QuantityV(2, "s"))
    @@ ("other" :> ObjV("o2"))

\* getattr(obj, attr) for the objects of the module: g, h and k are kernel
\* methods, r is a host method, n is a data attribute
ObjAttrs(oid) ==
    ("g" :> FuncV("host", "g", oid, "g"))
    @@ ("h" :> FuncV("host", "h", oid, "h"))
    @@ ("k" :> FuncV("host", "k", oid, "k"))
    @@ ("r" :> FuncV("host", "r", oid, ""))
    @@ ("n" :> IntV(3))

Fail == [ok |-> FALSE, value |-> None]
Value(v) == [ok |-> TRUE, value |-> v]

\* artiq.compiler.tools.eval_ast: evaluate an expression in an environment;
\* ok is FALSE when the evaluation raises
RECURSIVE eval_ast(_, _)
eval_ast(expr, env) ==
    IF expr.t = "Num" THEN Value(IntV(expr.n))
    ELSE IF expr.t = "Str" THEN Value(StrV(expr.s))
    ELSE IF expr.t = "Name"
         THEN IF expr.id \in DOMAIN env THEN Value(env[expr.id]) ELSE Fail
    ELSE IF expr.t = "Attribute"
         THEN LET o == eval_ast(expr.value, env)
              IN  IF o.ok /\ o.value.py = "object"
                     /\ expr.attr \in DOMAIN ObjAttrs(o.value.oid)
                  THEN Value(ObjAttrs(o.value.oid)[expr.attr])
                  ELSE Fail
    ELSE Fail

\* _replace_global
_replace_global(obj, ref) ==
    LET value == eval_ast(ref, ModuleDict)
    IN  IF ~value.ok THEN None ELSE _value_to_ast(value.value)

\* what a call returns (exc = "") or raises (exc = the exception's name)
Return(m, ret) == [rm |-> m, ret |-> ret, exc |-> ""]
Raise(m, exc) == [rm |-> m, ret |-> None, exc |-> exc]

ScopeKey(obj, funcname, local) == <<obj, funcname, local>>

\* get taking every Store of a variable for a first one: the lookup of the
\* existing binding is skipped and a new name is bound
get_rebinds(m, obj, funcname, ref) ==
    LET store == ref.ctx = "Store"
        key == ScopeKey(obj, funcname, ref.id)
    IN  IF ref.t = "Name" /\ store
        THEN LET n == new_name(m, ref.id)
             IN  Return(Store_to_inlined(n.rm, key, _UserVariable(n.name)),
                        Name(n.name, "Store"))
        ELSE IF ref.t = "Name" /\ Bound(m, key)
        THEN LET ival == m.to_inlined[key]
             IN  IF ival.py = "_UserVariable"
                 THEN Return(m, Name(ival.name, ref.ctx))
                 ELSE IF ival.py = "ast" THEN Return(m, ival)
                 ELSE LET a == _value_to_ast(ival)
                      IN  IF a = None THEN Raise(m, "NotImplementedError")
                          ELSE Return(m, a)
        ELSE IF ~store
        THEN LET repl == _replace_global(obj, ref)
             IN  IF repl # None THEN Return(m, repl) ELSE Raise(m, "KeyError")
        ELSE Raise(m, "KeyError")

\* _ReferenceManager.get
get(m, obj, funcname, ref) ==
    LET store == ref.ctx = "Store"
        key == ScopeKey(obj, funcname, ref.id)
    IN  IF ref.t = "Name" /\ Bound(m, key)
        THEN LET ival == m.to_inlined[key]
             IN  IF ival.py = "_UserVariable"
                 THEN Return(m, Name(ival.name, ref.ctx))
                 ELSE IF ival.py = "ast"
                 THEN IF store THEN Raise(m, "AssertionError")
                      ELSE Return(m, ival)
                 ELSE IF store THEN Raise(m, "NotImplementedError")
                 ELSE LET a == _value_to_ast(ival)
                      IN  IF a = None THEN Raise(m, "NotImplementedError")
                          ELSE Return(m, a)
        ELSE IF ref.t = "Name" /\ store
        THEN LET n == new_name(m, ref.id)
             IN  Return(Store_to_inlined(n.rm, key, _UserVariable(n.name)),
                        Name(n.name, "Store"))
        ELSE IF ~store
        THEN LET repl == _replace_global(obj, ref)
             IN  IF repl # None THEN Return(m, repl) ELSE Raise(m, "KeyError")
        ELSE Raise(m, "KeyError")

\* _ReferenceManager.set
set(m, obj, funcname, name, value) ==
    Store_to_inlined(m, ScopeKey(obj, funcname, name), value)

\* _ReferenceManager.get_constants
get_constants(m, r_obj, r_funcname) ==
    LET locals == {k[3] : k \in {k \in DOMAIN m.to_inlined :
                        /\ k[1] = r_obj
                        /\ k[2] = r_funcname
                        /\ m.to_inlined[k].py \notin {"_UserVariable", "ast"}}}
    IN  [local \in locals |-> m.to_inlined[ScopeKey(r_obj, r_funcname, local)]]

\* the lookup with ids counted from 1
rpc_map_getitem_from_one(m, func) ==
    LET id == IF func \in DOMAIN m.rpc_map THEN m.rpc_map[func]
              ELSE Cardinality(DOMAIN m.rpc_map) + 1
    IN  Return([m EXCEPT !.rpc_map = (func :> id) @@ @,
                         !.trace = Append(@, [ev |-> "rpc", func |-> func,
                                              id |-> id])],
               id)

\* self.rpc_map[func], rpc_map being defaultdict(lambda: len(self.rpc_map)):
\* a missing key is inserted with the size of the map before the insertion
rpc_map_getitem(m, func) ==
    LET id == IF func \in DOMAIN m.rpc_map THEN m.rpc_map[func]
              ELSE Cardinality(DOMAIN m.rpc_map)
    IN  Return([m EXCEPT !.rpc_map = (func :> id) @@ @,
                         !.trace = Append(@, [ev |-> "rpc", func |-> func,
                                              id |-> id])],
               id)

(***************************************************************************)
(* Kernel functions: what ast.parse(inspect.getsource(k_function)) gives.  *)
(***************************************************************************)
FunctionDef(name, args, body) ==
    [py |-> "ast", t |-> "FunctionDef", name |-> name, args |-> args,
     body |-> body]

\* the kernel methods of the module's objects
\*   def g(self, a): host_fn(a); b = a
\*   def h(self, y): y = y + 1
\*   def k(self, c): self.g(c); host_fn2(c)
KernelSource(k_function) ==
    IF k_function = "g"
    THEN FunctionDef("g", <<"self", "a">>,
            <<Expr(Call(Name("host_fn", "Load"), <<Name("a", "Load")>>)),
              Assign(Name("b", "Store"), Name("a", "Load"))>>)
    ELSE IF k_function = "h"
    THEN FunctionDef("h", <<"self", "y">>,
            <<Assign(Name("y", "Store"),
                     BinOp(Name("y", "Load"), Num(1)))>>)
    ELSE FunctionDef("k", <<"self", "c">>,
            <<Expr(Call(Attribute(Name("self", "Load"), "g", "Load"),
                        <<Name("c", "Load")>>)),
              Expr(Call(Name("host_fn2", "Load"), <<Name("c", "Load")>>))>>)

\* the set with delay left out
_embeddable_calls_without_delay ==
    {units_Quantity,
     experiment_getattr("at"),
     experiment_getattr("now"), experiment_getattr("syscall"),
     builtin_range}

_embeddable_calls ==
    {units_Quantity,
     experiment_getattr("delay"), experiment_getattr("at"),
     experiment_getattr("now"), experiment_getattr("syscall"),
     builtin_range}

\* hasattr(func, "k_function_info")
has_k_function_info(func) == func.py = "function" /\ func.k_function # ""

(***************************************************************************)
(* _ListReadOnlyParams                                                     *)
(***************************************************************************)
Range(seq) == {seq[i] : i \in DOMAIN seq}

\* the ids of the Name nodes in Store context anywhere under node
\* (_ListReadOnlyParams.visit_Name reached by ast.NodeVisitor.generic_visit)
RECURSIVE StoreNames(_)
StoreNames(node) ==
    IF node.py # "ast" THEN {}
    ELSE IF node.t = "Name"
         THEN IF node.ctx = "Store" THEN {node.id} ELSE {}
    ELSE IF node.t = "Attribute" THEN StoreNames(node.value)
    ELSE IF node.t = "Subscript"
         THEN StoreNames(node.value) \cup StoreNames(node.slice)
    ELSE IF node.t = "BinOp"
         THEN StoreNames(node.left) \cup StoreNames(node.right)
    ELSE IF node.t = "Call"
         THEN StoreNames(node.func)
                \cup UNION {StoreNames(a) : a \in Range(node.args)}
    ELSE IF node.t = "Assign"
         THEN UNION {StoreNames(a) : a \in Range(node.targets)}
                \cup StoreNames(node.value)
    ELSE IF node.t = "Expr" THEN StoreNames(node.value)
    ELSE IF node.t = "FunctionDef"
         THEN UNION {StoreNames(a) : a \in Range(node.body)}
    ELSE {}

\* the analyzer with no parameter left read-only
_list_read_only_params_none(funcdef) == {}

\* _list_read_only_params
_list_read_only_params(funcdef) == Range(funcdef.args) \ StoreNames(funcdef)

(***************************************************************************)
(* _initialize_function_params                                             *)
(***************************************************************************)
Min(a, b) == IF a < b THEN a ELSE b

\* the loop over zip(funcdef.args.args, k_args), from pair i on; ret is
\* param_init
RECURSIVE InitParamsFrom(_, _, _, _, _)
InitParamsFrom(funcdef, k_args, m, i, param_init) ==
    IF i > Min(Len(funcdef.args), Len(k_args)) THEN Return(m, param_init)
    ELSE LET obj == k_args[1]
             arg_name == funcdef.args[i]
             arg_value == k_args[i]
         IN  IF arg_name \in _list_read_only_params(funcdef)
             THEN InitParamsFrom(funcdef, k_args,
                      set(m, obj, funcdef.name, arg_name, arg_value),
                      i + 1, param_init)
             ELSE LET target == get(m, obj, funcdef.name,
                                    Name(arg_name, "Store"))
                      value == _value_to_ast(arg_value)
                  IN  IF target.exc # "" THEN target
                      ELSE InitParamsFrom(funcdef, k_args, target.rm, i + 1,
                               Append(param_init, Assign(target.ret, value)))

_initialize_function_params(funcdef, k_args, m) ==
    InitParamsFrom(funcdef, k_args, m, 1, <<>>)

(***************************************************************************)
(* _ReferenceReplacer and inline                                           *)
(***************************************************************************)
RECURSIVE visit(_, _, _, _)
RECURSIVE visit_Call(_, _, _, _)
RECURSIVE VisitArgs(_, _, _, _, _, _)
RECURSIVE VisitList(_, _, _, _, _, _)
RECURSIVE inline(_, _, _)

\* [self.visit(arg) for arg in node.args], from element i on: every result is
\* one element of the new list, whatever it is
VisitArgs(m, obj, funcname, args, i, new_args) ==
    IF i > Len(args) THEN Return(m, new_args)
    ELSE LET r == visit(m, obj, funcname, args[i])
         IN  IF r.exc # "" THEN r
             ELSE VisitArgs(r.rm, obj, funcname, args, i + 1,
                            Append(new_args, r.ret))

\* ast.NodeTransformer.generic_visit on a list field, from element i on: a
\* result that is a list is spliced in, a node is appended
VisitList(m, obj, funcname, nodes, i, new_values) ==
    IF i > Len(nodes) THEN Return(m, new_values)
    ELSE LET r == visit(m, obj, funcname, nodes[i])
         IN  IF r.exc # "" THEN r
             ELSE VisitList(r.rm, obj, funcname, nodes, i + 1,
                            IF r.ret.py = "list" THEN new_values \o r.ret.elts
                            ELSE Append(new_values, r.ret))

\* _ReferenceReplacer.visit_Call
visit_Call(m, obj, funcname, node) ==
    LET calldict == ModuleDict @@ get_constants(m, obj, funcname)
        func == eval_ast(node.func, calldict)
        a == VisitArgs(m, obj, funcname, node.args, 1, <<>>)
        new_args == a.ret
    IN  IF ~func.ok THEN Raise(m, "NameError")
        ELSE IF a.exc # "" THEN a
        ELSE IF func.value \in _embeddable_calls
        THEN Return(a.rm, Call(Name(func.value.name, "Load"), new_args))
        ELSE IF has_k_function_info(func.value)
        THEN LET args == <<ObjV(func.value.self)>> \o new_args
                 r == inline(KernelSource(func.value.k_function), args, a.rm)
             IN  IF r.exc # "" THEN r ELSE Return(r.rm, ListV(r.ret))
        ELSE LET id == rpc_map_getitem(a.rm, func.value)
             IN  Return(id.rm,
                        Call(Name("syscall", "Load"),
                             <<Str("rpc"), Num(id.ret)>> \o new_args))

\* _ReferenceReplacer.visit_Expr
visit_Expr(m, obj, funcname, node) ==
    IF node.value.py = "ast" /\ node.value.t = "Call"
    THEN LET r == visit_Call(m, obj, funcname, node.value)
         IN  IF r.exc # "" THEN r
             ELSE IF r.ret.py = "list" THEN r
             ELSE Return(r.rm, [node EXCEPT !.value = r.ret])
    ELSE LET r == visit(m, obj, funcname, node.value)
         IN  IF r.exc # "" THEN r
             ELSE Return(r.rm, [node EXCEPT !.value = r.ret])

\* ast.NodeTransformer.visit: dispatch on the node's class; the classes
\* without a visit_ method go through generic_visit, field by field
visit(m, obj, funcname, node) ==
    IF node.t \in {"Name", "Attribute", "Subscript"}
    THEN get(m, obj, funcname, node)
    ELSE IF node.t = "Call" THEN visit_Call(m, obj, funcname, node)
    ELSE IF node.t = "Expr" THEN visit_Expr(m, obj, funcname, node)
    ELSE IF node.t = "Assign"
    THEN LET ts == VisitList(m, obj, funcname, node.targets, 1, <<>>)
         IN  IF ts.exc # "" THEN ts
             ELSE LET v == visit(ts.rm, obj, funcname, node.value)
                  IN  IF v.exc # "" THEN v
                      ELSE Return(v.rm, [node EXCEPT !.targets = ts.ret,
                                                     !.value = v.ret])
    ELSE IF node.t = "BinOp"
    THEN LET l == visit(m, obj, funcname, node.left)
         IN  IF l.exc # "" THEN l
             ELSE LET r == visit(l.rm, obj, funcname, node.right)
                  IN  IF r.exc # "" THEN r
                      ELSE Return(r.rm, [node EXCEPT !.left = l.ret,
                                                     !.right = r.ret])
    ELSE Return(m, node)

\* inline with the initialization statements put after the body
inline_init_last(funcdef, k_args, m) ==
    LET param_init == _initialize_function_params(funcdef, k_args, m)
        obj == k_args[1]
        funcname == funcdef.name
        body == VisitList(param_init.rm, obj, funcname, funcdef.body, 1, <<>>)
    IN  IF param_init.exc # "" THEN param_init
        ELSE IF body.exc # "" THEN body
        ELSE Return(body.rm, body.ret \o param_init.ret)

\* inline(k_function, k_args, k_kwargs, rm): ret is funcdef.body, the
\* manager carries rpc_map
inline(funcdef, k_args, m) ==
    LET param_init == _initialize_function_params(funcdef, k_args, m)
        obj == k_args[1]
        funcname == funcdef.name
        body == VisitList(param_init.rm, obj, funcname, funcdef.body, 1, <<>>)
    IN  IF param_init.exc # "" THEN param_init
        ELSE IF body.exc # "" THEN body
        ELSE Return(body.rm, param_init.ret \o body.ret)

(***************************************************************************)
(* Spec: one session of a reference manager, driven call by call.          *)
(***************************************************************************)
\* the scopes (owner, function name) and local names the calls are drawn from
Scopes == {<<ObjV("o1"), "f">>, <<ObjV("o2"), "f">>, <<ObjV("o1"), "g">>}
Locals == {"x", "x1", "x_", "range"}
Ctxs == {"Load", "Store"}
Refs ==
    {Name(l, c) : l \in Locals, c \in Ctxs}
        \cup {Attribute(Name("x", "Load"), "n", c) : c \in Ctxs}
        \cup {Subscript(Name("x", "Load"), Num(0), c) : c \in Ctxs}
        \cup {Name("N", "Load"), Attribute(Name("other", "Load"), "n", "Load")}
Callables == {host_fn, host_fn2, FuncV("host", "r", "o1", "")}

NoCall == [funcdef |-> None, k_args |-> <<>>]
NoResult == [body |-> <<>>, rpc_map |-> EmptyMap, exc |-> "", param_init |-> <<>>]
NoOp == [op |-> "none"]

\* the history of one call only
Fresh(m) == [m EXCEPT !.trace = <<>>]

RefKey(obj, funcname, ref) ==
    IF ref.t = "Name" THEN ScopeKey(obj, funcname, ref.id) ELSE <<>>

Init ==
    /\ rm = _ReferenceManager
    /\ last = NoOp
    /\ nops = 0
    /\ first = EmptyMap
    /\ allocated = {}
    /\ call = NoCall
    /\ result = NoResult
    /\ pc = "rm"

\* rm.get(obj, funcname, ref)
Get(obj, funcname, ref) ==
    /\ pc = "rm"
    /\ nops < MaxOps
    /\ LET r == get(Fresh(rm), obj, funcname, ref)
           key == RefKey(obj, funcname, ref)
           fresh == r.exc = "" /\ ref.t = "Name" /\ ref.ctx = "Store"
                        /\ key \notin DOMAIN first
       IN  /\ rm' = r.rm
           /\ last' = [op |-> "get", key |-> key, ref |-> ref,
                       bound_before |-> Bound(rm, key),
                       ret |-> r.ret, exc |-> r.exc]
           /\ first' = IF fresh THEN (key :> r.ret.id) @@ first ELSE first
           /\ allocated' = IF r.rm.use_count # rm.use_count
                           THEN allocated \cup {r.ret.id} ELSE allocated
    /\ nops' = nops + 1
    /\ UNCHANGED <<call, result, pc>>

\* rm.new_name(base_name)
NewName(base_name) ==
    /\ pc = "rm"
    /\ nops < MaxOps
    /\ LET r == new_name(Fresh(rm), base_name)
       IN  /\ rm' = r.rm
           /\ last' = [op |-> "new_name", base_name |-> base_name,
                       name |-> r.name]
           /\ allocated' = allocated \cup {r.name}
    /\ nops' = nops + 1
    /\ UNCHANGED <<first, call, result, pc>>

\* rm.rpc_map[func]
RpcMap(func) ==
    /\ pc = "rm"
    /\ nops < MaxOps
    /\ LET r == rpc_map_getitem(Fresh(rm), func)
       IN  /\ rm' = r.rm
           /\ last' = [op |-> "rpc_map", func |-> func, id |-> r.ret]
    /\ nops' = nops + 1
    /\ UNCHANGED <<first, allocated, call, result, pc>>

Next ==
    \/ \E s \in Scopes, ref \in Refs : Get(s[1], s[2], ref)
    \/ \E b \in Locals : NewName(b)
    \/ \E func \in Callables : RpcMap(func)

Spec == Init /\ [][Next]_vars

(***************************************************************************)
(* Properties of the reference manager, checked under Spec.                *)
(***************************************************************************)
\* the scope keys bound as renamed variables
UserVariableKeys(m) ==
    {k \in DOMAIN m.to_inlined : m.to_inlined[k].py = "_UserVariable"}

\* the names of the renamed variables
UserVariableNames(m) == {m.to_inlined[k].name : k \in UserVariableKeys(m)}

\* C1: within one session, any two distinct scope keys bound as renamed
\* variables hold different names, and no name that was allocated, for a
\* scope key or by new_name itself, is a reserved name.
C1_UniqueNames ==
    /\ \A k1 \in UserVariableKeys(rm) : \A k2 \in UserVariableKeys(rm) :
            k1 # k2 => rm.to_inlined[k1].name # rm.to_inlined[k2].name
    /\ UserVariableNames(rm) \cap ReservedNames = {}
    /\ allocated \cap ReservedNames = {}

\* C1 witness: the local x of f is renamed for two owners while a user name
\* ending in a digit, or a reserved name, is renamed in the same session
C1_Witness ==
    /\ pc = "rm"
    /\ ScopeKey(ObjV("o1"), "f", "x") \in UserVariableKeys(rm)
    /\ ScopeKey(ObjV("o2"), "f", "x") \in UserVariableKeys(rm)
    /\ \E k \in UserVariableKeys(rm) : k[3] \in {"x1", "range"}

\* C9: a resolve of a scope key that a Store-resolve has bound before, in
\* either context and whatever calls came in between, returns the name the
\* first Store-resolve returned and leaves the name allocator unchanged.
C9_SameName ==
    [][\A key \in DOMAIN first :
          (last'.op = "get" /\ last'.key = key) =>
              /\ last'.exc = ""
              /\ last'.ret = Name(first[key], last'.ref.ctx)
              /\ rm'.use_count = rm.use_count
              /\ allocated' = allocated]_vars

\* C9 witness: a key is resolved again, after its first Store-resolve and
\* another call
C9_Witness ==
    /\ last.op = "get"
    /\ last.key \in DOMAIN first
    /\ last.bound_before
    /\ last.ret.id = first[last.key]
    /\ nops = 3
    /\ Cardinality(allocated) = 2

\* the last call was a Store-resolve of a reference without a binding
StoreOfUnbound ==
    /\ last.op = "get"
    /\ last.ref.ctx = "Store"
    /\ ~last.bound_before

\* C10 as the specification states it: a Store-resolve of a reference without a binding, be it
\* a variable, a member or an index, does not fail.
C10_AnyShapeAllocates ==
    StoreOfUnbound => last.exc = "" /\ last.ret.t = "Name"

\* C10: a Store-resolve of a variable without a binding returns a name
\* never allocated before and not reserved, and binds the scope key to it
\* as a renamed variable; a Store-resolve of a member or of an index
\* raises KeyError and leaves the manager as it was.
C10_VariableAllocates ==
    [][StoreOfUnbound' =>
          IF last'.ref.t = "Name"
          THEN /\ last'.exc = ""
               /\ last'.ret.t = "Name"
               /\ last'.ret.ctx = "Store"
               /\ last'.ret.id \notin allocated \cup ReservedNames
               /\ last'.ret.id \notin UserVariableNames(rm)
               /\ rm'.to_inlined =
                      (last'.key :> _UserVariable(last'.ret.id))
                          @@ rm.to_inlined
          ELSE /\ last'.exc = "KeyError"
               /\ rm'.to_inlined = rm.to_inlined
               /\ rm'.use_count = rm.use_count
               /\ rm'.rpc_map = rm.rpc_map]_vars

\* C10 witness: the third Store-resolve of an unbound variable x has
\* returned the name x2 and bound it
C10_Witness ==
    /\ StoreOfUnbound
    /\ last.ref = Name("x", "Store")
    /\ last.exc = ""
    /\ last.ret.id = "x2"
    /\ Binding(rm, last.key) = _UserVariable("x2")

(***************************************************************************)
(* SpecInline: one top-level call of inline, on a kernel f of the object   *)
(* o1 whose parameters, arguments and body are drawn from the sets below.  *)
(***************************************************************************)
Self == Name("self", "Load")

\* the statements the body of f is made of
Statements ==
    { \* y = y + 1
      Assign(Name("y", "Store"), BinOp(Name("y", "Load"), Num(1))),
      \* z = x
      Assign(Name("z", "Store"), Name("x", "Load")),
      \* z1 = N
      Assign(Name("z1", "Store"), Name("N", "Load")),
      \* b = T
      Assign(Name("b", "Store"), Name("T", "Load")),
      \* self.a = 1
      Assign(Attribute(Self, "a", "Store"), Num(1)),
      \* host_fn(x)
      Expr(Call(Name("host_fn", "Load"), <<Name("x", "Load")>>)),
      \* host_fn2(3)
      Expr(Call(Name("host_fn2", "Load"), <<Num(3)>>)),
      \* self.r(x)
      Expr(Call(Attribute(Self, "r", "Load"), <<Name("x", "Load")>>)),
      \* delay(x)
      Expr(Call(Name("delay", "Load"), <<Name("x", "Load")>>)),
      \* delay(host_fn(1))
      Expr(Call(Name("delay", "Load"),
                <<Call(Name("host_fn", "Load"), <<Num(1)>>)>>)),
      \* delay(self.g(3))
      Expr(Call(Name("delay", "Load"),
                <<Call(Attribute(Self, "g", "Load"), <<Num(3)>>)>>)),
      \* self.g(x)
      Expr(Call(Attribute(Self, "g", "Load"), <<Name("x", "Load")>>)),
      \* self.g(3)
      Expr(Call(Attribute(Self, "g", "Load"), <<Num(3)>>)),
      \* other.g(x)
      Expr(Call(Attribute(Name("other", "Load"), "g", "Load"),
                <<Name("x", "Load")>>)),
      \* z = self.g(3)
      Assign(Name("z", "Store"),
             Call(Attribute(Self, "g", "Load"), <<Num(3)>>)),
      \* self.h(3)
      Expr(Call(Attribute(Self, "h", "Load"), <<Num(3)>>)),
      \* self.k(4)
      Expr(Call(Attribute(Self, "k", "Load"), <<Num(4)>>)) }

\* the parameters of f and the values it is called with: f(self, x),
\* f(self, y) and f(self, x, y) on the object o1
Signatures ==
    {[args |-> <<"self", "x">>, k_args |-> <<ObjV("o1"), x>>] :
        x \in {IntV(5), StrV("s"), ObjV("o3")}}
    \cup
    {[args |-> <<"self", "y">>, k_args |-> <<ObjV("o1"), y>>] :
        y \in {IntV(2), ObjV("o3")}}
    \cup
    {[args |-> <<"self", "x", "y">>, k_args |-> <<ObjV("o1"), x, y>>] :
        x \in {IntV(5), ObjV("o3")}, y \in {IntV(2), ObjV("o3")}}

InitInline ==
    /\ rm = _ReferenceManager
    /\ last = NoOp
    /\ nops = 0
    /\ first = EmptyMap
    /\ allocated = {}
    /\ \E n \in 1..MaxBody : \E body \in [1..n -> Statements] :
          \E sig \in Signatures :
              call = [funcdef |-> FunctionDef("f", sig.args, body),
                      k_args |-> sig.k_args]
    /\ result = NoResult
    /\ pc = "start"

\* inline(k_function, k_args, dict()): rm is None, so the session's manager
\* is the new one; an exception leaves the caller without a result
Inline ==
    /\ pc = "start"
    /\ \E r \in {inline(call.funcdef, call.k_args, rm)} :
       \* history: the initialization statements this call made
       \E init \in {_initialize_function_params(call.funcdef, call.k_args, rm)} :
           /\ rm' = r.rm
           /\ result' = [body |-> IF r.exc = "" THEN r.ret ELSE <<>>,
                         rpc_map |-> IF r.exc = "" THEN r.rm.rpc_map
                                     ELSE EmptyMap,
                         exc |-> r.exc,
                         param_init |-> IF r.exc = "" THEN init.ret ELSE <<>>]
    /\ pc' = "done"
    /\ UNCHANGED <<last, nops, first, allocated, call>>

NextInline == Inline

SpecInline == InitInline /\ [][NextInline]_vars

(***************************************************************************)
(* Properties of inline, checked under SpecInline.                         *)
(***************************************************************************)
Done == pc = "done"
Returned == pc = "done" /\ result.exc = ""

\* every value under v: nodes, lists and missing values
RECURSIVE Nodes(_)
NodesOf(seq) == UNION {Nodes(seq[i]) : i \in DOMAIN seq}
Nodes(v) ==
    {v} \cup
    IF v.py = "list" THEN NodesOf(v.elts)
    ELSE IF v.py # "ast" THEN {}
    ELSE IF v.t \in {"Attribute"} THEN Nodes(v.value)
    ELSE IF v.t = "Subscript" THEN Nodes(v.value) \cup Nodes(v.slice)
    ELSE IF v.t = "BinOp" THEN Nodes(v.left) \cup Nodes(v.right)
    ELSE IF v.t = "Call" THEN Nodes(v.func) \cup NodesOf(v.args)
    ELSE IF v.t = "Assign" THEN NodesOf(v.targets) \cup Nodes(v.value)
    ELSE IF v.t = "Expr" THEN Nodes(v.value)
    ELSE {}

OutputNodes == NodesOf(result.body)

RpcEvents(m) == SelectSeq(m.trace, LAMBDA e : e.ev = "rpc")
BindEvents(m) == SelectSeq(m.trace, LAMBDA e : e.ev = "bind")

\* the callables looked up before the i-th lookup
SeenBefore(ev, i) == {ev[j].func : j \in 1..(i - 1)}

\* the first lookup of the callable of the i-th lookup
FirstLookup(ev, i) ==
    CHOOSE j \in 1..i :
        /\ ev[j].func = ev[i].func
        /\ ev[i].func \notin SeenBefore(ev, j)

\* C2: the rpc map is a one-to-one map from the callables looked up so far
\* onto 0..n-1; a callable gets the number of distinct callables looked up
\* before its first lookup, every later lookup returns that id, and the map
\* handed back by inline is this map.
C2_DenseIds ==
    LET ev == RpcEvents(rm)
        funcs == DOMAIN rm.rpc_map
    IN  /\ funcs = {ev[i].func : i \in DOMAIN ev}
        /\ \A i \in DOMAIN ev :
              /\ ev[i].id = Cardinality(SeenBefore(ev, FirstLookup(ev, i)))
              /\ rm.rpc_map[ev[i].func] = ev[i].id
        /\ {rm.rpc_map[f] : f \in funcs} = 0..(Cardinality(funcs) - 1)
        /\ \A f1 \in funcs : \A f2 \in funcs :
              rm.rpc_map[f1] = rm.rpc_map[f2] => f1 = f2
        /\ Returned => result.rpc_map = rm.rpc_map

\* C2 witness: two distinct remote callables, one of them met again from
\* inside a nested inline of g
C2_Witness ==
    LET ev == RpcEvents(rm)
    IN  /\ Returned
        /\ Cardinality(DOMAIN rm.rpc_map) >= 2
        /\ \E i \in DOMAIN ev : \E j \in DOMAIN ev : i < j /\ ev[i].func = ev[j].func
        /\ ScopeKey(ObjV("o1"), "g", "a") \in DOMAIN rm.to_inlined
        /\ rm.rpc_map[host_fn] = 0

\* C3 as the specification states it: no write to the table changes the binding of a scope key
\* that is bound already.
C3_NeverRebound ==
    LET ev == BindEvents(rm)
    IN  \A i \in DOMAIN ev : ev[i].old # Unbound => ev[i].new = ev[i].old

\* C3: a scope key bound as a renamed variable keeps that binding for the
\* session; the keys that are bound again are those of read-only
\* parameters, the new argument replaces the old one without an error, and
\* the table holds for every key the value bound last.
C3_RenamedVariablesKept ==
    LET ev == BindEvents(rm)
    IN  /\ \A i \in DOMAIN ev :
              ev[i].old # Unbound =>
                  /\ ev[i].old.py # "_UserVariable"
                  /\ ev[i].new.py # "_UserVariable"
        /\ \A i \in DOMAIN ev :
              (\A j \in DOMAIN ev : j > i => ev[j].key # ev[i].key) =>
                  Binding(rm, ev[i].key) = ev[i].new

\* C3 witness: g was inlined twice on o1 with different arguments for its
\* read-only parameter a, and its local b is a renamed variable
C3_Witness ==
    LET ev == BindEvents(rm)
    IN  /\ Returned
        /\ \E i \in DOMAIN ev :
              /\ ev[i].key = ScopeKey(ObjV("o1"), "g", "a")
              /\ ev[i].old # Unbound
              /\ ev[i].new # ev[i].old
        /\ ScopeKey(ObjV("o1"), "g", "b") \in UserVariableKeys(rm)

\* the names a call of the output may call: the remote-call primitive and
\* the embeddable operations
OutputCallNames == {"syscall", "Quantity", "delay", "at", "now", "range"}

\* C4 as the specification states it: the output holds no call of a kernel function, and no
\* position of an expression in it holds a list of statements.
C4_FlatOutput ==
    Returned =>
        \A n \in OutputNodes :
            /\ n.py # "list"
            /\ (n.py = "ast" /\ n.t = "Call") =>
                   n.func.t = "Name" /\ n.func.id \in OutputCallNames

\* the parameters of the top-level call, paired with arguments
Params == 1..Min(Len(call.funcdef.args), Len(call.k_args))

IsStoreTarget(i) == call.funcdef.args[i] \in StoreNames(call.funcdef)

\* the scope key of the i-th parameter
ParamKey(i) ==
    ScopeKey(call.k_args[1], call.funcdef.name, call.funcdef.args[i])

\* node with every Load of the variable p, outside call targets, replaced
\* by lit
RECURSIVE Subst(_, _, _)
Subst(node, p, lit) ==
    IF node.t = "Name"
    THEN IF node.id = p /\ node.ctx = "Load" THEN lit ELSE node
    ELSE IF node.t = "BinOp"
    THEN [node EXCEPT !.left = Subst(node.left, p, lit),
                      !.right = Subst(node.right, p, lit)]
    ELSE IF node.t = "Call"
    THEN [node EXCEPT !.args = [i \in DOMAIN node.args |->
                                   Subst(node.args[i], p, lit)]]
    ELSE IF node.t = "Assign"
    THEN [node EXCEPT !.value = Subst(node.value, p, lit)]
    ELSE IF node.t = "Expr"
    THEN [node EXCEPT !.value = Subst(node.value, p, lit)]
    ELSE IF node.t = "FunctionDef"
    THEN [node EXCEPT !.body = [i \in DOMAIN node.body |->
                                   Subst(node.body[i], p, lit)]]
    ELSE node

\* C5: for every parameter that is no Store target of the body, the output
\* holds no initialization statement (the initialization statements are
\* those of the other parameters, one each), and, the argument being
\* encodable, the output is the output of the kernel with every Load of the
\* parameter written as the literal of the argument.
C5_ReadOnlyParams ==
    Returned =>
        /\ Len(result.param_init) = Cardinality({i \in Params : IsStoreTarget(i)})
        /\ \A k \in DOMAIN result.param_init :
              \E j \in Params :
                  /\ IsStoreTarget(j)
                  /\ Binding(rm, ParamKey(j)) =
                        _UserVariable(result.param_init[k].targets[1].id)
        /\ \A i \in Params :
              ~IsStoreTarget(i) =>
                  LET lit == _value_to_ast(call.k_args[i])
                      literal == inline(Subst(call.funcdef, call.funcdef.args[i], lit),
                                        call.k_args, _ReferenceManager)
                  IN  /\ Binding(rm, ParamKey(i)) = call.k_args[i]
                      /\ lit # None =>
                            literal.exc = "" /\ result.body = literal.ret

\* C5 witness: f(self, x) with the body z = x; host_fn(x), called with
\* x = 5, gives z = 5; syscall("rpc", 0, 5) and no initialization
C5_Witness ==
    /\ Returned
    /\ call.funcdef.args = <<"self", "x">>
    /\ call.k_args = <<ObjV("o1"), IntV(5)>>
    /\ result.param_init = <<>>
    /\ result.body =
          <<Assign(Name("z", "Store"), Num(5)),
            Expr(Call(Name("syscall", "Load"),
                      <<Str("rpc"), Num(0), Num(5)>>))>>

\* f(self, y) with the body y = y + 1, called with y = 2
CallC6 ==
    [funcdef |-> FunctionDef("f", <<"self", "y">>,
                    <<Assign(Name("y", "Store"),
                             BinOp(Name("y", "Load"), Num(1)))>>),
     k_args |-> <<ObjV("o1"), IntV(2)>>]

\* the output y = 2; y = y + 1 with y renamed to name
OutputC6(name) ==
    <<Assign(Name(name, "Store"), Num(2)),
      Assign(Name(name, "Store"), BinOp(Name(name, "Load"), Num(1)))>>

\* C6 as the specification states it: the output is y0 = 2; y0 = y0 + 1.
C6_RenamedY0 == (Done /\ call = CallC6) => result.body = OutputC6("y0")

\* C6: the output is y = 2; y = y + 1: the first variable of a session
\* named y keeps its name, the initialization comes first, and the
\* initialization, the Store and the Load use the same name.
C6_RenamedY == (Done /\ call = CallC6) => result.body = OutputC6("y")

\* C6 witness: the call has returned
C6_Witness == Returned /\ call = CallC6 /\ Len(result.body) = 2

\* C7 as the specification states it: a parameter that is a Store target, called with a value
\* that cannot be encoded, makes inline fail, and no assignment of the
\* output lacks its value.
C7_UnencodableFails ==
    Done =>
        /\ (\E i \in Params :
                IsStoreTarget(i) /\ _value_to_ast(call.k_args[i]) = None)
               => result.exc # "" /\ result.body = <<>>
        /\ \A n \in OutputNodes :
               (n.py = "ast" /\ n.t = "Assign") => n.value # None

\* the statement delay(arg)
DelayStmt(arg) == Expr(Call(Name("delay", "Load"), <<arg>>))

\* a call of the remote-call primitive
IsRpc(n) ==
    /\ n.py = "ast" /\ n.t = "Call"
    /\ n.func = Name("syscall", "Load")
    /\ Len(n.args) >= 2 /\ n.args[1] = Str("rpc")

\* C8: a call of the embeddable delay is emitted as a call of delay with
\* its arguments resolved (a read-only parameter as its literal, a remote
\* call as its rpc call), and is not wrapped as a remote call; no embeddable
\* operation and no kernel function has an entry in the rpc map, and every
\* entry of the rpc map is the id of an emitted remote call.
C8_Embeddable ==
    /\ DOMAIN rm.rpc_map \cap
          ({experiment_getattr(n) : n \in {"delay", "at", "now", "syscall"}}
              \cup {units_Quantity, builtin_range}) = {}
    /\ \A func \in DOMAIN rm.rpc_map : ~has_k_function_info(func)
    /\ Returned =>
          /\ \A func \in DOMAIN rm.rpc_map :
                \E n \in OutputNodes :
                    IsRpc(n) /\ n.args[2] = Num(rm.rpc_map[func])
          /\ \A i \in DOMAIN call.funcdef.body :
                LET s == call.funcdef.body[i]
                IN  /\ (s = DelayStmt(Name("x", "Load"))
                           /\ call.funcdef.args[2] = "x") =>
                          \E j \in DOMAIN result.body :
                              result.body[j] =
                                  DelayStmt(_value_to_ast(call.k_args[2]))
                    /\ s = DelayStmt(Call(Name("host_fn", "Load"), <<Num(1)>>)) =>
                          \E j \in DOMAIN result.body :
                              result.body[j] =
                                  DelayStmt(Call(Name("syscall", "Load"),
                                      <<Str("rpc"), Num(rm.rpc_map[host_fn]),
                                        Num(1)>>))

\* C8 witness: delay(host_fn(1)) and delay(x) were resolved, host_fn being
\* the only entry of the rpc map
C8_Witness ==
    /\ Returned
    /\ call.funcdef.body =
          <<DelayStmt(Call(Name("host_fn", "Load"), <<Num(1)>>)),
            DelayStmt(Name("x", "Load"))>>
    /\ call.k_args = <<ObjV("o1"), IntV(5)>>
    /\ DOMAIN rm.rpc_map = {host_fn}
    /\ result.body[2] = DelayStmt(Num(5))

====
